---- MODULE Spec2Model ----
(***************************************************************************)
(* A model of the PepWorkday pipeline's two core pieces:                   *)
(*   - the idempotent upsert of GoogleSheetsClient                         *)
(*     (pepworkday-pipeline/integrations/google_sheets.py), and            *)
(*   - the dispatch/telemetry enrichment                                   *)
(*     (pepworkday-pipeline/core/samsara_enrichment.py).                   *)
(* SpecUpsert runs upsert_data against one remote worksheet, one remote    *)
(* call per step; SpecEnrich runs enrich_dispatch_data on bounded tables.  *)
(***************************************************************************)
EXTENDS Integers, Sequences, FiniteSets, TLC

VARIABLES
    \* ---- remote worksheet and GoogleSheetsClient.upsert_data ----
    sheet,          \* worksheet.get_all_values(): rows of string cells, row 1 the header
    upc,            \* position inside upsert_data
    data,           \* the DataFrame passed to upsert_data
    batch_size,     \* its batch_size argument
    existing_data,  \* the snapshot _get_existing_data returned
    upsert_plan,    \* the plan _plan_upsert_operations returned
    results,        \* the results dict of _execute_upsert_batches
    chunk_i,        \* loop variable i of _batch_insert / _batch_update (0-based offset)
    item_j,         \* position of the inner loop of _batch_update inside the chunk
    count,          \* inserted_count / updated_count local of the running loop
    chunks,         \* history: one record per planned chunk, with its fate
    appended,       \* history: rows really appended to the worksheet in this call
    rewritten,      \* history: rows really rewritten in this call
    sheet0,         \* history: the worksheet when the call started
    ws_exists,      \* the spreadsheet has the worksheet upsert_data is asked for
    ws_created,     \* history: this call created it (spreadsheet.add_worksheet)
    sent,           \* history: the batches handed to worksheet.append_rows in this call
    \* ---- enrich_dispatch_data ----
    dispatch_df,          \* argument: the dispatch table
    samsara_df,           \* argument: the telemetry table
    match_columns,        \* argument: dispatch column -> telemetry column
    date_tolerance_days,  \* argument
    epc,                  \* position inside enrich_dispatch_data
    dispatch_prepared,    \* result of _prepare_dispatch_for_matching
    samsara_prepared,     \* result of _prepare_samsara_for_matching
    row_idx,              \* position of the iterrows() loop of _perform_enrichment_merge
    matches,              \* what _find_samsara_matches returned for the last row
    enriched_records,     \* the list _perform_enrichment_merge accumulates
    enriched_df,          \* the enriched table
    metrics,              \* the EnrichmentMetrics returned
    raised,               \* the exception enrich_dispatch_data left with ("" when none)
    error_columns,        \* the columns the SamsaraEnrichmentError message names
    \* ---- _preprocess_samsara_data ----
    raw_df,               \* argument: the telemetry table as loaded
    processed_df,         \* the table returned
    npc,                  \* position inside _preprocess_samsara_data
    \* ---- SamsaraAPIClient.get_fleet_trips ----
    api_config,           \* SamsaraAPIConfig: max_retries
    apc,                  \* position inside get_fleet_trips
    page,                 \* _paginated_request: page
    all_data,             \* _paginated_request: number of records collected
    attempt,              \* _make_request: attempt
    http_calls,           \* history: calls of session.request in this call
    only_exceptions,      \* history: every HTTP attempt so far raised RequestException
    \* ---- AdvancedSamsaraPoller._poll_data_type ----
    config,               \* PollingConfig
    ppc,                  \* position inside _poll_data_type
    poll_page,            \* _poll_data_type: page
    current_backoff_delay,
    total_requests,       \* metrics.total_requests
    rate_limited_run,     \* history: consecutive rate-limited requests up to the latest one
    run_before,           \* history: rate_limited_run as it was before the latest request
    applied_delay,        \* history: the back-off slept before the latest request
    \* ---- EnhancedGoogleSheetsClient.batch_operations ----
    operations,           \* argument: the BatchOperations
    cpc,                  \* position inside batch_operations
    queued,               \* executor: submitted, not yet started
    in_flight,            \* executor: running in a worker thread
    batch_results         \* results returned

uvars == <<sheet, upc, data, batch_size, existing_data, upsert_plan, results,
           chunk_i, item_j, count, chunks, appended, rewritten, sheet0,
           ws_exists, ws_created, sent>>

evars == <<dispatch_df, samsara_df, match_columns, date_tolerance_days, epc,
           dispatch_prepared, samsara_prepared, row_idx, matches, enriched_records,
           enriched_df, metrics, raised, error_columns>>

nvars == <<raw_df, processed_df, npc>>

avars == <<api_config, apc, page, all_data, attempt, http_calls, only_exceptions>>

pvars == <<config, ppc, poll_page, current_backoff_delay, total_requests,
           rate_limited_run, run_before, applied_delay>>

cvars == <<operations, cpc, queued, in_flight, batch_results>>

vars == <<uvars, evars, nvars, avars, pvars, cvars>>

\* What the steps of one component leave alone.
not_uvars == <<evars, nvars, avars, pvars, cvars>>
not_evars == <<uvars, nvars, avars, pvars, cvars>>
not_nvars == <<uvars, evars, avars, pvars, cvars>>
not_avars == <<uvars, evars, nvars, pvars, cvars>>
not_pvars == <<uvars, evars, nvars, avars, cvars>>
not_cvars == <<uvars, evars, nvars, avars, pvars>>

(***************************************************************************)
(* Bounds of the model.                                                    *)
(***************************************************************************)
MaxBatch == 2        \* rows of one DataFrame given to upsert_data
MaxSheetRows == 4    \* rows the remote worksheet may grow to (header included)

(***************************************************************************)
(* Values.                                                                 *)
(***************************************************************************)
NaN == "<NaN>"                      \* a null cell of a DataFrame
KeyColumn == "id"                   \* the key_column argument
DataColumns == <<"id", "val">>      \* columns of the DataFrames upserted
RawKeys == {"A", "B"}
RawVals == {"x", "y"}
\* Key A with each value, key B, and a row whose key is null.
RawRows == {r \in RawKeys \X RawVals : r[1] = "A" \/ r[2] = "x"} \cup {<<NaN, "x">>}

SeqUpTo(S, n) == UNION {[1..m -> S] : m \in 0..n}
Range(seq) == {seq[i] : i \in 1..Len(seq)}
Restrict(row, cols) == [c \in cols |-> row[c]]
\* The DataFrames upserted; one has the same columns in the other order, the
\* last one lacks the key column.
DataFrames ==
    [columns : {DataColumns}, rows : SeqUpTo(RawRows, MaxBatch)]
        \cup {[columns |-> <<"val", "id">>, rows |-> <<<<"y", "B">>>>]}
        \cup {[columns |-> <<"val">>, rows |-> <<<<"x">>>>]}
BatchSizes == {1, 2}

\* What one remote call can answer: accepted, a gspread APIError (429 is the
\* rate-limit response, 403 a rejection), or an exception of another type
\* (connection failure, credential refresh failure).
Outcomes == {"ok", "APIError429", "APIError403", "Exception"}

\* A handler that caught the rate-limit response only.
IsRateLimitOnly(o) == o = "APIError429"

\* except APIError: every gspread APIError, whatever its status.
IsAPIError(o) == o \in {"APIError429", "APIError403"}

Min(a, b) == IF a <= b THEN a ELSE b

(***************************************************************************)
(* The remote store: gspread's worksheet operations on the value grid.     *)
(***************************************************************************)
\* worksheet.row_values(1)
row_values1(ws) == IF Len(ws) = 0 THEN <<>> ELSE ws[1]

\* worksheet.update('r:r', [row]): the cells of row r covered by `row` are
\* overwritten, the cells to their right are kept.
update_row(ws, r, row) ==
    LET old == IF r <= Len(ws) THEN ws[r] ELSE <<>>
        new == [c \in 1..(IF Len(old) > Len(row) THEN Len(old) ELSE Len(row)) |->
                   IF c <= Len(row) THEN row[c] ELSE old[c]]
        n   == IF r > Len(ws) THEN r ELSE Len(ws)
    IN  [k \in 1..n |-> IF k = r THEN new ELSE IF k <= Len(ws) THEN ws[k] ELSE <<>>]

\* worksheet.insert_rows(batch, row=2): the rows go under the header and push
\* the stored rows down.
insert_rows_at_2(ws, batch) ==
    IF Len(ws) = 0 THEN batch ELSE <<ws[1]>> \o batch \o Tail(ws)

\* worksheet.append_rows(batch): the rows go after the last row of the grid.
append_rows(ws, batch) == ws \o batch

(***************************************************************************)
(* _prepare_data_for_upsert: data.fillna('').astype(str).values.tolist()   *)
(***************************************************************************)
fillna_str(v) == IF v = NaN THEN "" ELSE v

HasKeyColumn(df, key_column) == \E c \in 1..Len(df.columns) : df.columns[c] = key_column

_prepare_data_for_upsert(df, key_column) ==
    <<df.columns>> \o
    [r \in 1..Len(df.rows) |-> [c \in 1..Len(df.rows[r]) |-> fillna_str(df.rows[r][c])]]

\* list.index(x): the first position holding x (1-based here).
index_of(seq, x) == CHOOSE i \in 1..Len(seq) : seq[i] = x /\ \A j \in 1..(i - 1) : seq[j] # x

\* dict(zip(headers, row)): on a repeated header the last cell wins.
zip_dict(headers, row) ==
    LET n == Min(Len(headers), Len(row))
    IN  [h \in {headers[c] : c \in 1..n} |->
            row[CHOOSE c \in 1..n : headers[c] = h /\ \A d \in (c + 1)..n : headers[d] # h]]

(***************************************************************************)
(* _get_existing_data: the snapshot, key -> (row_index, data).  A read     *)
(* that raises, an empty worksheet and a header without the key column     *)
(* all give the empty snapshot.  Of two rows with one key the later wins.  *)
(***************************************************************************)
_get_existing_data(ws, key_column, readOutcome) ==
    IF readOutcome # "ok" THEN <<>>
    ELSE IF Len(ws) = 0 THEN <<>>
    ELSE IF ~\E c \in 1..Len(ws[1]) : ws[1][c] = key_column THEN <<>>
    ELSE
      LET headers   == ws[1]
          key_index == index_of(headers, key_column)
          keyed     == {i \in 2..Len(ws) : Len(ws[i]) >= key_index /\ ws[i][key_index] # ""}
          keys      == {ws[i][key_index] : i \in keyed}
          last(k)   == CHOOSE i \in keyed : ws[i][key_index] = k
                           /\ \A j \in keyed : ws[j][key_index] = k => j <= i
      IN  [k \in keys |-> [row_index |-> last(k), data |-> zip_dict(headers, ws[last(k)])]]

(***************************************************************************)
(* _row_needs_update: some column of the new row differs, as a string,     *)
(* from the stored row (a column the stored row lacks reads as '').        *)
(***************************************************************************)
dict_get(d, h, default) == IF h \in DOMAIN d THEN d[h] ELSE default

\* A comparison that looked at the first column only.
first_column_differs(new_row, existing_row, headers) ==
    new_row[1] # dict_get(existing_row, headers[1], "")

_row_needs_update(new_row, existing_row, headers) ==
    \E i \in 1..Len(headers) :
        (IF i <= Len(new_row) THEN new_row[i] ELSE "") # dict_get(existing_row, headers[i], "")

(***************************************************************************)
(* _plan_upsert_operations: the loop over prepared_data[1:].               *)
(***************************************************************************)
RECURSIVE plan_loop(_, _, _, _, _)
plan_loop(prepared, k, existing, key_index, ops) ==
    IF k > Len(prepared) THEN ops
    ELSE
      LET row_data  == prepared[k]
          key_value == row_data[key_index]
          ops2 ==
            IF key_value \in DOMAIN existing
            THEN IF _row_needs_update(row_data, existing[key_value].data, prepared[1])
                 THEN [ops EXCEPT !.update =
                          Append(@, [row_index |-> existing[key_value].row_index,
                                     data |-> row_data])]
                 ELSE ops
            ELSE [ops EXCEPT !.insert = Append(@, row_data)]
      IN  plan_loop(prepared, k + 1, existing, key_index, ops2)

\* A planner that queued the rows to update as inserts as well.
plan_with_updates_inserted(prepared, existing, key_column) ==
    LET p == plan_loop(prepared, 2, existing, index_of(prepared[1], key_column),
                       [insert |-> <<>>, update |-> <<>>, headers |-> prepared[1]])
    IN  [p EXCEPT !.insert = @ \o [i \in 1..Len(p.update) |-> p.update[i].data]]

_plan_upsert_operations(prepared, existing, key_column) ==
    plan_loop(prepared, 2, existing, index_of(prepared[1], key_column),
              [insert |-> <<>>, update |-> <<>>, headers |-> prepared[1]])

(***************************************************************************)
(* The chunks range(0, len(rows), batch_size) cuts a list into.            *)
(***************************************************************************)
NumChunks(n, bs) == (n + bs - 1) \div bs
\* A slice that runs one row into the next chunk.
chunk_with_overlap(rows, i, bs) == SubSeq(rows, i + 1, Min(i + bs + 1, Len(rows)))

ChunkOf(rows, i, bs) == SubSeq(rows, i + 1, Min(i + bs, Len(rows)))

\* History record of the planned chunks: the insert chunks, then the update chunks.
PlannedChunks(plan, bs) ==
    [c \in 1..(NumChunks(Len(plan.insert), bs) + NumChunks(Len(plan.update), bs)) |->
        [kind     |-> IF c <= NumChunks(Len(plan.insert), bs) THEN "insert" ELSE "update",
         status   |-> "Pending",
         outcome  |-> "",
         attempts |-> 0]]

InsertChunkNo == chunk_i \div batch_size + 1
UpdateChunkNo == NumChunks(Len(upsert_plan.insert), batch_size) + chunk_i \div batch_size + 1

\* The state a chunk is left in by the answer to its submission.
StatusAfter(outcome) ==
    IF outcome = "ok" THEN "Acked"
    ELSE IF outcome = "APIError429" THEN "RateLimited"
    ELSE "Failed"

Submitted(c, outcome) ==
    [c EXCEPT !.status = StatusAfter(outcome), !.outcome = outcome, !.attempts = @ + 1]

EmptyPlan == [insert |-> <<>>, update |-> <<>>, headers |-> <<>>]
NoResults == [inserted |-> 0, updated |-> 0, errors |-> <<>>]

(***************************************************************************)
(* upsert_data, up to the call of _execute_upsert_batches: prepare, read   *)
(* the snapshot, plan, and initialise the results dict.                    *)
(***************************************************************************)
UpsertData(df, bs, readOutcome) ==
    /\ upc = "idle"
    \* _get_or_create_worksheet (line 429), before the key column is looked at
    /\ ws_exists' = TRUE
    /\ ws_created' = ~ws_exists
    /\ sent' = <<>>
    /\ IF ~HasKeyColumn(df, KeyColumn)
       THEN \* _prepare_data_for_upsert raises; upsert_data re-raises GoogleSheetsError
            /\ upc' = "raised"
            /\ data' = df
            /\ batch_size' = bs
            /\ existing_data' = <<>>
            /\ upsert_plan' = EmptyPlan
            /\ results' = NoResults
            /\ chunks' = <<>>
            /\ sheet0' = sheet
            /\ UNCHANGED <<sheet, chunk_i, item_j, count, appended, rewritten>>
       ELSE LET prepared == _prepare_data_for_upsert(df, KeyColumn)
                existing == _get_existing_data(sheet, KeyColumn, readOutcome)
                plan     == _plan_upsert_operations(prepared, existing, KeyColumn)
            IN  /\ Len(sheet) + Len(plan.insert) + 1 <= MaxSheetRows
                /\ upc' = "headers"
                /\ data' = df
                /\ batch_size' = bs
                /\ existing_data' = existing
                /\ upsert_plan' = plan
                /\ results' = NoResults
                /\ chunks' = PlannedChunks(plan, bs)
                /\ chunk_i' = 0
                /\ item_j' = 0
                /\ count' = 0
                /\ appended' = 0
                /\ rewritten' = 0
                /\ sheet0' = sheet
                /\ UNCHANGED sheet
    /\ UNCHANGED not_uvars

(***************************************************************************)
(* _execute_upsert_batches, first statement: _ensure_headers when the plan *)
(* is not empty.  _ensure_headers swallows every exception.                *)
(***************************************************************************)
_ensure_headers(ws, headers, outcome) ==
    IF outcome = "ok" /\ row_values1(ws) # headers
    THEN update_row(ws, 1, headers)
    ELSE ws

AfterHeaders(plan) ==
    IF plan.insert # <<>> THEN "insert"
    ELSE IF plan.update # <<>> THEN "update"
    ELSE "finish"

EnsureHeaders(outcome) ==
    /\ upc = "headers"
    /\ sheet' = IF upsert_plan.insert # <<>> \/ upsert_plan.update # <<>>
                THEN _ensure_headers(sheet, upsert_plan.headers, outcome)
                ELSE sheet
    /\ upc' = AfterHeaders(upsert_plan)
    /\ UNCHANGED <<data, batch_size, existing_data, upsert_plan, results, chunk_i,
                   item_j, count, chunks, appended, rewritten, sheet0>>
    /\ UNCHANGED <<ws_exists, ws_created, sent>>
    /\ UNCHANGED not_uvars

(***************************************************************************)
(* _batch_insert: one pass of its loop.  An APIError is logged and the     *)
(* loop goes on to the next chunk; any other exception leaves the function *)
(* (results['inserted'] is never assigned) and is recorded by the except   *)
(* clause of _execute_upsert_batches, which skips the updates.             *)
(***************************************************************************)
InsertChunk(outcome) ==
    /\ upc = "insert"
    /\ chunk_i < Len(upsert_plan.insert)
    /\ LET batch == ChunkOf(upsert_plan.insert, chunk_i, batch_size)
       IN  /\ chunks' = [chunks EXCEPT ![InsertChunkNo] = Submitted(@, outcome)]
           /\ sent' = Append(sent, batch)
           /\ IF outcome = "ok"
              THEN /\ sheet' = append_rows(sheet, batch)
                   /\ count' = count + Len(batch)
                   /\ appended' = appended + Len(batch)
                   /\ chunk_i' = chunk_i + batch_size
                   /\ UNCHANGED <<upc, results>>
              ELSE IF IsAPIError(outcome)
              THEN /\ chunk_i' = chunk_i + batch_size
                   /\ UNCHANGED <<sheet, count, appended, upc, results>>
              ELSE /\ results' = [results EXCEPT !.errors = Append(@, outcome)]
                   /\ upc' = "finish"
                   /\ UNCHANGED <<sheet, count, appended, chunk_i>>
    /\ UNCHANGED <<data, batch_size, existing_data, upsert_plan, item_j, rewritten, sheet0>>
    /\ UNCHANGED <<ws_exists, ws_created>>
    /\ UNCHANGED not_uvars

\* The loop of _batch_insert is over: return inserted_count into results['inserted'].
InsertReturn ==
    /\ upc = "insert"
    /\ chunk_i >= Len(upsert_plan.insert)
    /\ results' = [results EXCEPT !.inserted = count]
    /\ count' = 0
    /\ chunk_i' = 0
    /\ upc' = IF upsert_plan.update # <<>> THEN "update" ELSE "finish"
    /\ UNCHANGED <<sheet, data, batch_size, existing_data, upsert_plan, item_j,
                   chunks, appended, rewritten, sheet0>>
    /\ UNCHANGED <<ws_exists, ws_created, sent>>
    /\ UNCHANGED not_uvars

(***************************************************************************)
(* _batch_update: one worksheet.update of its inner loop.  The try block   *)
(* wraps the whole chunk: an APIError on one row abandons the rest of the  *)
(* chunk and the outer loop goes on; another exception leaves the function.*)
(***************************************************************************)
UpdateItem(outcome) ==
    /\ upc = "update"
    /\ chunk_i < Len(upsert_plan.update)
    /\ LET batch       == ChunkOf(upsert_plan.update, chunk_i, batch_size)
           update_item == batch[item_j + 1]
           lastOfChunk == item_j + 1 = Len(batch)
       IN  IF outcome = "ok"
           THEN /\ sheet' = update_row(sheet, update_item.row_index, update_item.data)
                /\ count' = count + 1
                /\ rewritten' = rewritten + 1
                /\ IF lastOfChunk
                   THEN /\ chunks' = [chunks EXCEPT ![UpdateChunkNo] = Submitted(@, outcome)]
                        /\ chunk_i' = chunk_i + batch_size
                        /\ item_j' = 0
                   ELSE /\ item_j' = item_j + 1
                        /\ UNCHANGED <<chunks, chunk_i>>
                /\ UNCHANGED <<upc, results>>
           ELSE IF IsAPIError(outcome)
           THEN /\ chunks' = [chunks EXCEPT ![UpdateChunkNo] = Submitted(@, outcome)]
                /\ chunk_i' = chunk_i + batch_size
                /\ item_j' = 0
                /\ UNCHANGED <<sheet, count, rewritten, upc, results>>
           ELSE /\ chunks' = [chunks EXCEPT ![UpdateChunkNo] = Submitted(@, outcome)]
                /\ results' = [results EXCEPT !.errors = Append(@, outcome)]
                /\ upc' = "finish"
                /\ UNCHANGED <<sheet, count, rewritten, chunk_i, item_j>>
    /\ UNCHANGED <<data, batch_size, existing_data, upsert_plan, appended, sheet0>>
    /\ UNCHANGED <<ws_exists, ws_created, sent>>
    /\ UNCHANGED not_uvars

\* The loop of _batch_update is over: return updated_count into results['updated'].
UpdateReturn ==
    /\ upc = "update"
    /\ chunk_i >= Len(upsert_plan.update)
    /\ results' = [results EXCEPT !.updated = count]
    /\ count' = 0
    /\ chunk_i' = 0
    /\ upc' = "finish"
    /\ UNCHANGED <<sheet, data, batch_size, existing_data, upsert_plan, item_j,
                   chunks, appended, rewritten, sheet0>>
    /\ UNCHANGED <<ws_exists, ws_created, sent>>
    /\ UNCHANGED not_uvars

\* _execute_upsert_batches returns results, and upsert_data returns them.
Return ==
    /\ upc = "finish"
    /\ upc' = "returned"
    /\ UNCHANGED <<sheet, data, batch_size, existing_data, upsert_plan, results,
                   chunk_i, item_j, count, chunks, appended, rewritten, sheet0>>
    /\ UNCHANGED <<ws_exists, ws_created, sent>>
    /\ UNCHANGED not_uvars

\* upsert_data is over (returned or raised): its locals and the returned dict are
\* gone, the client and the remote worksheet stay for the next call.
NextCall ==
    /\ upc \in {"returned", "raised"}
    /\ upc' = "idle"
    /\ data' = [columns |-> DataColumns, rows |-> <<>>]
    /\ batch_size' = 1
    /\ existing_data' = <<>>
    /\ upsert_plan' = EmptyPlan
    /\ results' = NoResults
    /\ chunk_i' = 0
    /\ item_j' = 0
    /\ count' = 0
    /\ chunks' = <<>>
    /\ appended' = 0
    /\ rewritten' = 0
    /\ sheet0' = <<>>
    /\ ws_created' = FALSE
    /\ sent' = <<>>
    /\ UNCHANGED <<sheet, ws_exists>>
    /\ UNCHANGED not_uvars

UInit ==
    /\ sheet = <<>>
    /\ upc = "idle"
    /\ data = [columns |-> DataColumns, rows |-> <<>>]
    /\ batch_size = 1
    /\ existing_data = <<>>
    /\ upsert_plan = EmptyPlan
    /\ results = NoResults
    /\ chunk_i = 0
    /\ item_j = 0
    /\ count = 0
    /\ chunks = <<>>
    /\ appended = 0
    /\ rewritten = 0
    /\ sheet0 = <<>>
    /\ ws_exists = FALSE
    /\ ws_created = FALSE
    /\ sent = <<>>

UNext ==
    \/ \E df \in DataFrames, bs \in BatchSizes, ro \in {"ok", "Exception"} :
           UpsertData(df, bs, ro)
    \/ \E o \in Outcomes : EnsureHeaders(o)
    \/ \E o \in Outcomes : InsertChunk(o)
    \/ InsertReturn
    \/ \E o \in Outcomes : UpdateItem(o)
    \/ UpdateReturn
    \/ Return
    \/ NextCall

(***************************************************************************)
(*                 samsara_enrichment.py: enrich_dispatch_data             *)
(*                                                                         *)
(* A cell of a table is <<>> when it is null (NaN, None, NaT) and <<v>>    *)
(* when it holds v.  A string is a sequence of characters, a date or a     *)
(* timestamp a day number; a negative day number stands for text that is   *)
(* no date.  A row is a function from column names to cells, a table a     *)
(* record of its set of columns and its sequence of rows.                  *)
(***************************************************************************)
Null == <<>>
Some(v) == <<v>>
isna(c) == c = Null
Val(c) == c[1]

SetMin(S) == CHOOSE x \in S : \A y \in S : x <= y
SetMax(S) == CHOOSE x \in S : \A y \in S : y <= x

\* str.lower() and str.strip() on the characters the model uses.
lower_char(ch) ==
    CASE ch = "J" -> "j"
      [] ch = "S" -> "s"
      [] ch = "M" -> "m"
      [] OTHER -> ch
str_lower(s) == [i \in 1..Len(s) |-> lower_char(s[i])]
str_strip(s) ==
    LET idx == {i \in 1..Len(s) : s[i] # " "}
    IN  IF idx = {} THEN <<>> ELSE SubSeq(s, SetMin(idx), SetMax(idx))

\* Series.astype(str): a null becomes the text 'nan'.
astype_str(c) == IF isna(c) THEN <<"n", "a", "n">> ELSE Val(c)

\* .astype(str).str.lower().str.strip()
normalize_driver(c) == Some(str_strip(str_lower(astype_str(c))))

\* pd.to_datetime(..., errors='coerce'): what is no date becomes NaT.
to_datetime(c) == IF isna(c) THEN Null ELSE IF Val(c) < 0 THEN Null ELSE c

\* df[name] = f(row) for every row.
with_column(df, name, f(_)) ==
    [columns |-> df.columns \cup {name},
     rows    |-> [r \in 1..Len(df.rows) |->
                    [c \in df.columns \cup {name} |->
                        IF c = name THEN f(df.rows[r]) ELSE df.rows[r][c]]]]

(***************************************************************************)
(* _validate_enrichment_columns: the exception it raises, or "".           *)
(***************************************************************************)
\* A validation that looked at the dispatch table only.
validate_dispatch_only(d_df, s_df, mc) ==
    IF {col \in DOMAIN mc : col \notin d_df.columns} # {}
    THEN "SamsaraEnrichmentError"
    ELSE ""

_validate_enrichment_columns(d_df, s_df, mc) ==
    LET missing_dispatch == {col \in DOMAIN mc : col \notin d_df.columns}
        missing_samsara  == {mc[col] : col \in DOMAIN mc} \ s_df.columns
    IN  IF missing_dispatch # {} THEN "SamsaraEnrichmentError"
        ELSE IF missing_samsara # {} THEN "SamsaraEnrichmentError"
        ELSE ""

\* The list formatted into the message of that error: the first raise names
\* missing_dispatch, the second, reached only when no dispatch column is
\* missing, names missing_samsara.
columns_in_message(d_df, s_df, mc) ==
    LET missing_dispatch == {col \in DOMAIN mc : col \notin d_df.columns}
        missing_samsara  == {mc[col] : col \in DOMAIN mc} \ s_df.columns
    IN  IF missing_dispatch # {} THEN missing_dispatch ELSE missing_samsara

(***************************************************************************)
(* _prepare_dispatch_for_matching.  The column it normalises is            *)
(* match_columns['driver_name'] (resp. ['date']), that is the NAME OF THE  *)
(* TELEMETRY COLUMN, looked up in the dispatch table; when the dispatch    *)
(* table has no column of that name nothing is added.                      *)
(***************************************************************************)
_prepare_dispatch_for_matching(df, mc) ==
    LET df1 == IF "driver_name" \in DOMAIN mc /\ mc["driver_name"] \in df.columns
               THEN with_column(df, "_normalized_driver",
                                LAMBDA row : normalize_driver(row[mc["driver_name"]]))
               ELSE df
    IN  IF "date" \in DOMAIN mc /\ mc["date"] \in df1.columns
        THEN with_column(df1, "_normalized_date", LAMBDA row : to_datetime(row[mc["date"]]))
        ELSE df1

(***************************************************************************)
(* _prepare_samsara_for_matching                                           *)
(***************************************************************************)
_prepare_samsara_for_matching(df, mc) ==
    LET df1 == IF "driver_name" \in DOMAIN mc /\ mc["driver_name"] \in df.columns
               THEN with_column(df, "_normalized_driver",
                                LAMBDA row : normalize_driver(row[mc["driver_name"]]))
               ELSE df
    IN  IF "date" \in DOMAIN mc /\ mc["date"] \in df1.columns
        THEN with_column(df1, "_normalized_date", LAMBDA row : to_datetime(row[mc["date"]]))
        ELSE df1

(***************************************************************************)
(* _find_samsara_matches: the two filters, each applied only when the      *)
(* normalised column exists on both sides and the dispatch value is not    *)
(* null.  A comparison with NaT is false.                                  *)
(***************************************************************************)
_find_samsara_matches(dispatch_row, s_df, mc, tolerance) ==
    LET by_driver ==
          IF "_normalized_driver" \in DOMAIN dispatch_row
             /\ "_normalized_driver" \in s_df.columns
             /\ ~isna(dispatch_row["_normalized_driver"])
          THEN SelectSeq(s_df.rows,
                   LAMBDA t : ~isna(t["_normalized_driver"])
                              /\ t["_normalized_driver"] = dispatch_row["_normalized_driver"])
          ELSE s_df.rows
        by_date ==
          IF "_normalized_date" \in DOMAIN dispatch_row
             /\ "_normalized_date" \in s_df.columns
             /\ ~isna(dispatch_row["_normalized_date"])
          THEN LET date_min == Val(dispatch_row["_normalized_date"]) - tolerance
                   date_max == Val(dispatch_row["_normalized_date"]) + tolerance
               IN  SelectSeq(by_driver,
                       LAMBDA t : ~isna(t["_normalized_date"])
                                  /\ Val(t["_normalized_date"]) >= date_min
                                  /\ Val(t["_normalized_date"]) <= date_max)
          ELSE by_driver
    IN  [columns |-> s_df.columns, rows |-> by_date]

(***************************************************************************)
(* `if matches:` (line 520) asks a pandas DataFrame for its truth value.   *)
(* DataFrame.__bool__ raises ValueError ("The truth value of a DataFrame   *)
(* is ambiguous") for every DataFrame, empty or not.                       *)
(***************************************************************************)
truth_value(df) == "ValueError"

\* Series.get(key, default)
series_get(row, key, default) == IF key \in DOMAIN row THEN row[key] ELSE default

\* dict.update
dict_update(d, u) ==
    [k \in DOMAIN d \cup DOMAIN u |-> IF k \in DOMAIN u THEN u[k] ELSE d[k]]

\* The record of a dispatch row that has a best match (lines 521-533).
matched_record(dispatch_row, best_match) ==
    dict_update(dispatch_row,
        [samsara_total_miles  |-> series_get(best_match, "total_miles", Null),
         samsara_idle_time    |-> series_get(best_match, "idle_time", Null),
         samsara_stops_count  |-> series_get(best_match, "stops_count", Null),
         samsara_fuel_used    |-> series_get(best_match, "fuel_used", Null),
         samsara_match_found  |-> Some(TRUE),
         samsara_match_date   |-> series_get(best_match, "_normalized_date", Null),
         samsara_match_driver |-> series_get(best_match, "_normalized_driver", Null)])

\* The record of a dispatch row without match (lines 535-544).
unmatched_record(dispatch_row) ==
    dict_update(dispatch_row,
        [samsara_total_miles  |-> Null,
         samsara_idle_time    |-> Null,
         samsara_stops_count  |-> Null,
         samsara_fuel_used    |-> Null,
         samsara_match_found  |-> Some(FALSE),
         samsara_match_date   |-> Null,
         samsara_match_driver |-> Null])

\* pd.DataFrame(list of dicts): the columns are the keys met, a missing key is null.
DataFrame(records) ==
    LET cols == UNION {DOMAIN records[r] : r \in 1..Len(records)}
    IN  [columns |-> cols,
         rows    |-> [r \in 1..Len(records) |->
                        [c \in cols |-> series_get(records[r], c, Null)]]]

(***************************************************************************)
(* _calculate_derived_metrics.  Numbers are integers; a percentage is kept *)
(* in hundredths (round(2)); x / 0 is <<sign, "inf">> and 0 / 0 is null,   *)
(* as in pandas float division.                                            *)
(***************************************************************************)
avg_speed_mph == 35

Inf(sign) == <<sign, "inf">>
is_inf(c) == Len(c) = 2

num_sub(a, b) == IF isna(a) \/ isna(b) THEN Null ELSE Some(Val(a) - Val(b))

\* n / d rounded to the nearest integer, ties to even (d > 0).
round_div(n, d) ==
    LET q == n \div d
        r == n % d
    IN  IF 2 * r > d THEN q + 1
        ELSE IF 2 * r < d THEN q
        ELSE IF q % 2 = 0 THEN q ELSE q + 1

\* (a / b * scale).round(2) in hundredths, for cells a and b.
ratio_percent(a, b, scale_num, scale_den) ==
    IF isna(a) \/ isna(b) THEN Null
    ELSE IF Val(b) = 0
         THEN IF Val(a) = 0 THEN Null ELSE Inf(IF Val(a) > 0 THEN 1 ELSE -1)
    ELSE IF Val(b) > 0
         THEN Some(round_div(Val(a) * scale_num * 100, Val(b) * scale_den))
    ELSE Some(round_div(-(Val(a) * scale_num * 100), -(Val(b) * scale_den)))

_calculate_derived_metrics(df) ==
    LET df1 == IF "planned_miles" \in df.columns /\ "samsara_total_miles" \in df.columns
               THEN LET v == with_column(df, "miles_variance",
                               LAMBDA row : num_sub(row["samsara_total_miles"],
                                                    row["planned_miles"]))
                    IN  with_column(v, "miles_variance_percent",
                               LAMBDA row : ratio_percent(row["miles_variance"],
                                                          row["planned_miles"], 100, 1))
               ELSE df
        df2 == IF "planned_stops" \in df.columns /\ "samsara_stops_count" \in df.columns
               THEN LET v == with_column(df1, "stops_variance",
                               LAMBDA row : num_sub(row["samsara_stops_count"],
                                                    row["planned_stops"]))
                    IN  with_column(v, "stops_variance_percent",
                               LAMBDA row : ratio_percent(row["stops_variance"],
                                                          row["planned_stops"], 100, 1))
               ELSE df1
    IN  IF "samsara_idle_time" \in df.columns /\ "samsara_total_miles" \in df.columns
        THEN LET h == with_column(df2, "estimated_trip_hours",
                          LAMBDA row : IF isna(row["samsara_total_miles"]) THEN Null
                                       ELSE Some([num |-> Val(row["samsara_total_miles"]),
                                                  den |-> avg_speed_mph]))
             \* idle / (miles / 35 * 60) * 100
             IN  with_column(h, "idle_percentage",
                          LAMBDA row : ratio_percent(row["samsara_idle_time"],
                                                     row["samsara_total_miles"],
                                                     100 * avg_speed_mph, 60))
        ELSE df2

(***************************************************************************)
(* _calculate_enrichment_metrics.  enriched_df['samsara_match_found'] is a *)
(* KeyError on a table without that column (the table of no records).      *)
(* A ratio or a mean is kept as the pair of its numerator and denominator; *)
(* Series.mean() skips nulls and is null (then replaced by 0) on nothing.  *)
(***************************************************************************)
RECURSIVE SumCells(_, _)
SumCells(rows, col) ==
    IF rows = <<>> THEN 0
    ELSE Val(Head(rows)[col]) + SumCells(Tail(rows), col)

\* Series.mean() followed by `if pd.isna(avg): avg = 0`.  The mean skips the
\* nulls; it is infinite ([num |-> sign, den |-> 0]) when infinities of one sign
\* are among the values and NaN, hence 0, when both signs are.
column_mean(rows, col, cols) ==
    IF col \notin cols THEN [num |-> 0, den |-> 1]
    ELSE LET present == SelectSeq(rows, LAMBDA row : ~isna(row[col]))
             finite  == SelectSeq(present, LAMBDA row : ~is_inf(row[col]))
             signs   == {present[i][col][1] : i \in {j \in 1..Len(present) :
                                                         is_inf(present[j][col])}}
         IN  IF Len(present) = 0 THEN [num |-> 0, den |-> 1]
             ELSE IF signs = {} THEN [num |-> SumCells(finite, col), den |-> Len(present)]
             ELSE IF Cardinality(signs) = 2 THEN [num |-> 0, den |-> 1]
             ELSE [num |-> CHOOSE sg \in signs : TRUE, den |-> 0]

\* The metrics with the means taken over every record, a null counted as 0.
mean_over_all(rows, col, cols) ==
    LET m == column_mean(rows, col, cols)
    IN  IF m.den = 0 \/ rows = <<>> THEN m ELSE [num |-> m.num, den |-> Len(rows)]

metrics_over_all_records(d_df, s_df, e_df) ==
    LET matched == Len(SelectSeq(e_df.rows,
                              LAMBDA row : row["samsara_match_found"] = Some(TRUE)))
    IN  [total_dispatch_records |-> Len(d_df.rows),
         total_samsara_records  |-> Len(s_df.rows),
         matched_records        |-> matched,
         unmatched_dispatch     |-> Len(d_df.rows) - matched,
         unmatched_samsara      |-> Len(s_df.rows) - matched,
         match_rate             |-> IF Len(d_df.rows) > 0
                                    THEN [num |-> matched, den |-> Len(d_df.rows)]
                                    ELSE [num |-> 0, den |-> 1],
         avg_miles_variance     |-> mean_over_all(e_df.rows, "miles_variance", e_df.columns),
         avg_stops_variance     |-> mean_over_all(e_df.rows, "stops_variance", e_df.columns),
         avg_idle_percentage    |-> mean_over_all(e_df.rows, "idle_percentage", e_df.columns)]

_calculate_enrichment_metrics(d_df, s_df, e_df) ==
    LET total_dispatch == Len(d_df.rows)
        total_samsara  == Len(s_df.rows)
        matched_rows   == SelectSeq(e_df.rows,
                              LAMBDA row : row["samsara_match_found"] = Some(TRUE))
        matched        == Len(matched_rows)
    IN  [total_dispatch_records |-> total_dispatch,
         total_samsara_records  |-> total_samsara,
         matched_records        |-> matched,
         unmatched_dispatch     |-> total_dispatch - matched,
         unmatched_samsara      |-> total_samsara - matched,
         match_rate             |-> IF total_dispatch > 0
                                    THEN [num |-> matched, den |-> total_dispatch]
                                    ELSE [num |-> 0, den |-> 1],
         avg_miles_variance     |-> column_mean(matched_rows, "miles_variance", e_df.columns),
         avg_stops_variance     |-> column_mean(matched_rows, "stops_variance", e_df.columns),
         avg_idle_percentage    |-> column_mean(matched_rows, "idle_percentage", e_df.columns)]

(***************************************************************************)
(* enrich_dispatch_data, one called function per step.                     *)
(***************************************************************************)
NoTable == [columns |-> {}, rows |-> <<>>]
NoMetrics == [total_dispatch_records |-> 0]

\* _validate_enrichment_columns (line 386)
Validate ==
    /\ epc = "validate"
    /\ LET e == _validate_enrichment_columns(dispatch_df, samsara_df, match_columns)
       IN  /\ raised' = e
           /\ error_columns' = IF e = "" THEN {}
                                ELSE columns_in_message(dispatch_df, samsara_df, match_columns)
           /\ epc' = IF e = "" THEN "prepare" ELSE "raised"
    /\ UNCHANGED <<dispatch_df, samsara_df, match_columns, date_tolerance_days,
                   dispatch_prepared, samsara_prepared, row_idx, matches,
                   enriched_records, enriched_df, metrics>>
    /\ UNCHANGED not_evars

\* lines 389-390
Prepare ==
    /\ epc = "prepare"
    /\ dispatch_prepared' = _prepare_dispatch_for_matching(dispatch_df, match_columns)
    /\ samsara_prepared' = _prepare_samsara_for_matching(samsara_df, match_columns)
    /\ row_idx' = 1
    /\ epc' = "merge"
    /\ UNCHANGED <<dispatch_df, samsara_df, match_columns, date_tolerance_days, error_columns,
                   matches, enriched_records, enriched_df, metrics, raised>>
    /\ UNCHANGED not_evars

\* _perform_enrichment_merge: one pass of the loop over dispatch_df.iterrows().
MergeRow ==
    /\ epc = "merge"
    /\ row_idx <= Len(dispatch_prepared.rows)
    /\ LET dispatch_row == dispatch_prepared.rows[row_idx]
           m == _find_samsara_matches(dispatch_row, samsara_prepared, match_columns,
                                      date_tolerance_days)
           t == truth_value(m)
       IN  /\ matches' = m
           /\ IF t = "ValueError"
              THEN /\ raised' = t
                   /\ epc' = "raised"
                   /\ UNCHANGED <<row_idx, enriched_records>>
              ELSE /\ enriched_records' =
                         Append(enriched_records,
                                IF t = "True"
                                THEN matched_record(dispatch_row, m.rows[1])
                                ELSE unmatched_record(dispatch_row))
                   /\ row_idx' = row_idx + 1
                   /\ UNCHANGED <<raised, epc>>
    /\ UNCHANGED <<dispatch_df, samsara_df, match_columns, date_tolerance_days, error_columns,
                   dispatch_prepared, samsara_prepared, enriched_df, metrics>>
    /\ UNCHANGED not_evars

\* The loop is over: return pd.DataFrame(enriched_records) (line 548).
MergeReturn ==
    /\ epc = "merge"
    /\ row_idx > Len(dispatch_prepared.rows)
    /\ enriched_df' = DataFrame(enriched_records)
    /\ epc' = "derive"
    /\ UNCHANGED <<dispatch_df, samsara_df, match_columns, date_tolerance_days, error_columns,
                   dispatch_prepared, samsara_prepared, row_idx, matches,
                   enriched_records, metrics, raised>>
    /\ UNCHANGED not_evars

\* line 398
DerivedMetrics ==
    /\ epc = "derive"
    /\ enriched_df' = _calculate_derived_metrics(enriched_df)
    /\ epc' = "metrics"
    /\ UNCHANGED <<dispatch_df, samsara_df, match_columns, date_tolerance_days, error_columns,
                   dispatch_prepared, samsara_prepared, row_idx, matches,
                   enriched_records, metrics, raised>>
    /\ UNCHANGED not_evars

\* lines 401-404
EnrichmentMetrics ==
    /\ epc = "metrics"
    /\ IF "samsara_match_found" \notin enriched_df.columns
       THEN /\ raised' = "KeyError"
            /\ epc' = "raised"
            /\ UNCHANGED metrics
       ELSE /\ metrics' = _calculate_enrichment_metrics(dispatch_df, samsara_df, enriched_df)
            /\ epc' = "returned"
            /\ UNCHANGED raised
    /\ UNCHANGED <<dispatch_df, samsara_df, match_columns, date_tolerance_days, error_columns,
                   dispatch_prepared, samsara_prepared, row_idx, matches,
                   enriched_records, enriched_df>>
    /\ UNCHANGED not_evars

(***************************************************************************)
(* The arguments enrich_dispatch_data is run on.                           *)
(***************************************************************************)
MaxDispatch == 2     \* rows of the dispatch table
MaxSamsara == 2      \* rows of the telemetry table

\* match_columns: the default of line 380, and a mapping onto equal names.
DefaultMatchColumns == [driver_name |-> "driver_id", date |-> "trip_date"]
SameNameMatchColumns == [driver_name |-> "driver_name", date |-> "date"]
MatchColumnChoices == {DefaultMatchColumns, SameNameMatchColumns}
Tolerances == {0, 1}

Str(s) == Some(s)
DispatchRow(driver, date, miles, stops) ==
    [driver_name |-> driver, date |-> date, planned_miles |-> miles, planned_stops |-> stops]
DispatchPool ==
    {DispatchRow(Str(<<"J", "S", " ">>), Some(5), Some(100), Some(5)),
     DispatchRow(Str(<<"m">>), Some(5), Some(0), Some(0)),
     DispatchRow(Null, Some(5), Some(100), Some(5)),
     DispatchRow(Str(<<"j", "s">>), Some(-1), Some(100), Null)}

SamsaraRow(mc, driver, date, miles, idle, stops, fuel) ==
    [c \in {mc["driver_name"], mc["date"], "total_miles", "idle_time", "stops_count",
            "fuel_used"} |->
        IF c = mc["driver_name"] THEN driver
        ELSE IF c = mc["date"] THEN date
        ELSE IF c = "total_miles" THEN miles
        ELSE IF c = "idle_time" THEN idle
        ELSE IF c = "stops_count" THEN stops
        ELSE fuel]
SamsaraPool(mc) ==
    {SamsaraRow(mc, Str(<<" ", "J", "S">>), Some(5), Some(110), Some(30), Some(4), Some(10)),
     SamsaraRow(mc, Str(<<"j", "s">>), Some(6), Some(999), Some(0), Some(1), Some(90)),
     SamsaraRow(mc, Str(<<"j", "s">>), Some(7), Some(0), Some(10), Some(2), Null),
     SamsaraRow(mc, Str(<<"m">>), Some(5), Null, Some(5), Some(3), Some(1)),
     SamsaraRow(mc, Null, Null, Some(50), Null, Some(1), Some(1)),
     SamsaraRow(mc, Null, Some(5), Some(20), Some(1), Some(1), Some(1))}

DispatchColumns == {"driver_name", "date", "planned_miles", "planned_stops"}
SamsaraColumns(mc) ==
    {mc["driver_name"], mc["date"], "total_miles", "idle_time", "stops_count", "fuel_used"}

\* The tables enrich_dispatch_data is given: the complete ones, and short ones
\* that lack one or both of the columns match_columns names.
without_columns(table, cols) ==
    [columns |-> table.columns \ cols,
     rows    |-> [i \in 1..Len(table.rows) |->
                    Restrict(table.rows[i], table.columns \ cols)]]

DispatchTables ==
    [columns : {DispatchColumns}, rows : SeqUpTo(DispatchPool, MaxDispatch)]
        \cup {without_columns(t, cols) :
                 t \in [columns : {DispatchColumns}, rows : SeqUpTo(DispatchPool, 1)],
                 cols \in {{"date"}, {"driver_name", "date"}}}

SamsaraTables(mc) ==
    [columns : {SamsaraColumns(mc)}, rows : SeqUpTo(SamsaraPool(mc), MaxSamsara)]
        \cup {without_columns(t, {mc["date"]}) :
                 t \in [columns : {SamsaraColumns(mc)}, rows : SeqUpTo(SamsaraPool(mc), 1)]}

EIdle ==
    /\ dispatch_df = NoTable
    /\ samsara_df = NoTable
    /\ match_columns = DefaultMatchColumns
    /\ date_tolerance_days = 1
    /\ epc = "idle"
    /\ dispatch_prepared = NoTable
    /\ samsara_prepared = NoTable
    /\ row_idx = 1
    /\ matches = NoTable
    /\ enriched_records = <<>>
    /\ enriched_df = NoTable
    /\ metrics = NoMetrics
    /\ raised = ""
    /\ error_columns = {}

EInit ==
    /\ match_columns \in MatchColumnChoices
    /\ date_tolerance_days \in Tolerances
    /\ dispatch_df \in DispatchTables
    /\ samsara_df \in SamsaraTables(match_columns)
    /\ epc = "validate"
    /\ dispatch_prepared = NoTable
    /\ samsara_prepared = NoTable
    /\ row_idx = 1
    /\ matches = NoTable
    /\ enriched_records = <<>>
    /\ enriched_df = NoTable
    /\ metrics = NoMetrics
    /\ raised = ""
    /\ error_columns = {}

ENext ==
    \/ Validate
    \/ Prepare
    \/ MergeRow
    \/ MergeReturn
    \/ DerivedMetrics
    \/ EnrichmentMetrics

(***************************************************************************)
(*             samsara_enrichment.py: _preprocess_samsara_data             *)
(*                                                                         *)
(* The telemetry table as read from a file or built from the API answer.   *)
(* A table here also has its index, the labels pandas keeps when rows are  *)
(* dropped.  A cell that holds text where a number is expected is          *)
(* <<text, "text">>.                                                       *)
(***************************************************************************)
MaxRaw == 2          \* rows of the table given to _preprocess_samsara_data

date_column == "trip_date"      \* default of load_samsara_data
driver_column == "driver_id"    \* default of load_samsara_data

Text(t) == <<t, "text">>
is_text(c) == Len(c) = 2

\* pd.to_numeric(..., errors='coerce')
to_numeric(c) == IF isna(c) THEN Null ELSE IF is_text(c) THEN Null ELSE c

\* col.lower().replace(' ', '_') on the column names the model uses.
normalize_column(col) ==
    CASE col = "Trip Date" -> "trip_date"
      [] col = "Driver Id" -> "driver_id"
      [] col = "Total Miles" -> "total_miles"
      [] OTHER -> col

numeric_columns == {"total_miles", "idle_time", "stops_count", "fuel_used"}

\* .astype(str).str.strip(): a null becomes the text 'nan'.
clean_driver(c) == Some(str_strip(astype_str(c)))

_preprocess_samsara_data(df, date_col, driver_col) ==
    LET renamed(row) ==
            [c \in {normalize_column(k) : k \in DOMAIN row} |->
                row[CHOOSE k \in DOMAIN row : normalize_column(k) = c]]
        columns == {normalize_column(k) : k \in df.columns}
        coerced(row) ==
            [c \in columns |->
                IF c = date_col THEN to_datetime(row[c])
                ELSE IF c = driver_col THEN clean_driver(row[c])
                ELSE IF c \in numeric_columns THEN to_numeric(row[c])
                ELSE row[c]]
        rows == [i \in 1..Len(df.rows) |-> coerced(renamed(df.rows[i]))]
        \* dropna(subset=[date_column, driver_column])
        kept == {i \in 1..Len(rows) : ~isna(rows[i][date_col]) /\ ~isna(rows[i][driver_col])}
        nth(k) == CHOOSE i \in kept : Cardinality({j \in kept : j < i}) = k - 1
    IN  IF {date_col, driver_col} \subseteq columns
        THEN [raised  |-> "",
              columns |-> columns,
              index   |-> [k \in 1..Cardinality(kept) |-> df.index[nth(k)]],
              rows    |-> [k \in 1..Cardinality(kept) |-> rows[nth(k)]]]
        ELSE [raised |-> "KeyError", columns |-> columns, index |-> <<>>, rows |-> <<>>]

RawLayouts ==
    {[driver |-> "driver_id", date |-> "trip_date", miles |-> "total_miles"],
     [driver |-> "Driver Id", date |-> "Trip Date", miles |-> "Total Miles"]}

RawRow(layout, driver, date, miles) ==
    [c \in {layout.driver, layout.date, layout.miles} |->
        IF c = layout.driver THEN driver
        ELSE IF c = layout.date THEN date
        ELSE miles]

RawDrivers == {Null, Str(<<" ", "J", "S", " ">>), Str(<<" ">>)}
RawDates == {Null, Some(5), Some(-1)}
RawMiles == {Some(110), Text("n/a")}

RawTables ==
    {[columns |-> {layout.driver, layout.date, layout.miles},
      index   |-> [i \in 1..Len(cells) |-> i - 1],
      rows    |-> [i \in 1..Len(cells) |->
                     RawRow(layout, cells[i][1], cells[i][2], cells[i][3])]] :
        layout \in RawLayouts,
        cells \in SeqUpTo(RawDrivers \X RawDates \X RawMiles, MaxRaw)}

NoFrame == [columns |-> {}, index |-> <<>>, rows |-> <<>>]

NIdle ==
    /\ raw_df = NoFrame
    /\ processed_df = NoFrame
    /\ npc = "idle"

NInit ==
    /\ raw_df \in RawTables
    /\ processed_df = NoFrame
    /\ npc = "call"

Preprocess ==
    /\ npc = "call"
    /\ LET out == _preprocess_samsara_data(raw_df, date_column, driver_column)
       IN  /\ processed_df' = [columns |-> out.columns, index |-> out.index, rows |-> out.rows]
           /\ npc' = IF out.raised = "" THEN "returned" ELSE "raised"
    /\ UNCHANGED raw_df
    /\ UNCHANGED not_nvars

NNext == Preprocess

AIdle ==
    /\ api_config = [max_retries |-> 0]
    /\ apc = "idle"
    /\ page = 0
    /\ all_data = 0
    /\ attempt = 0
    /\ http_calls = 0
    /\ only_exceptions = TRUE

PIdle ==
    /\ config = [retry_delay_seconds |-> 0]
    /\ ppc = "idle"
    /\ poll_page = 0
    /\ current_backoff_delay = 0
    /\ total_requests = 0
    /\ rate_limited_run = 0
    /\ run_before = 0
    /\ applied_delay = 0

CIdle ==
    /\ operations = <<>>
    /\ cpc = "idle"
    /\ queued = <<>>
    /\ in_flight = {}
    /\ batch_results = [successful_operations |-> 0, failed_operations |-> 0]

(***************************************************************************)
(*          samsara_api.py: get_fleet_trips, _paginated_request,           *)
(*                              _make_request                              *)
(*                                                                         *)
(* One step is one call of session.get and what the client does with its   *)
(* answer, up to the next call of session.get or the end of                *)
(* get_fleet_trips.  A page of data counts as one record.                  *)
(***************************************************************************)
MaxRetries == 2      \* largest SamsaraAPIConfig.max_retries
MaxPages == 3        \* max_pages of _paginated_request

\* The answers of session.get: a page with more to come, the last page, a
\* page without data, HTTP 429, and a RequestException (raised by
\* session.get or by raise_for_status).
HttpOutcomes == {"more", "last", "empty", "429", "exception"}

\* _make_request, after one answer of session.get in attempt att:
\* "return", "retry" or "raise" (SamsaraAPIError).
_make_request(outcome, att, max_retries) ==
    CASE outcome \in {"more", "last", "empty"} -> "return"
      [] outcome = "429" -> IF att = max_retries THEN "raise" ELSE "retry"
      [] outcome = "exception" -> IF att = max_retries THEN "raise" ELSE "retry"

AInit ==
    /\ api_config \in [max_retries : 0..MaxRetries]
    /\ apc = "request"
    /\ page = 1
    /\ all_data = 0
    /\ attempt = 0
    /\ http_calls = 0
    /\ only_exceptions = TRUE

HttpAttempt(outcome) ==
    /\ apc = "request"
    /\ http_calls' = http_calls + 1
    /\ only_exceptions' = (only_exceptions /\ outcome = "exception")
    /\ LET r == _make_request(outcome, attempt, api_config.max_retries)
       IN  CASE r = "retry" ->
                 /\ attempt' = attempt + 1
                 /\ UNCHANGED <<apc, page, all_data>>
             [] r = "raise" ->
                 \* except SamsaraAPIError: log, break, return all_data
                 /\ apc' = "returned"
                 /\ UNCHANGED <<page, all_data, attempt>>
             [] r = "return" /\ outcome = "empty" ->
                 /\ apc' = "returned"
                 /\ UNCHANGED <<page, all_data, attempt>>
             [] r = "return" /\ outcome = "last" ->
                 /\ all_data' = all_data + 1
                 /\ apc' = "returned"
                 /\ UNCHANGED <<page, attempt>>
             [] r = "return" /\ outcome = "more" ->
                 /\ all_data' = all_data + 1
                 /\ page' = page + 1
                 /\ attempt' = 0
                 /\ apc' = IF page + 1 <= MaxPages THEN "request" ELSE "returned"
    /\ UNCHANGED api_config
    /\ UNCHANGED not_avars

ANext == \E outcome \in HttpOutcomes : HttpAttempt(outcome)

(***************************************************************************)
(*     advanced_polling.py: _poll_data_type, _enforce_rate_limits,         *)
(*                          _handle_rate_limit                             *)
(*                                                                         *)
(* One step is one turn of the while loop: _enforce_rate_limits, the call  *)
(* of the API client and the handling of its answer.                       *)
(***************************************************************************)
MaxPollPages == 2    \* largest PollingConfig.max_pages_per_request
MaxPollRetries == 1  \* largest PollingConfig.max_retries
MaxRequests == 6     \* requests followed in one call of _poll_data_type

\* PollingConfig with its defaults for the back-off, and with a small
\* max_backoff_seconds that the second doubling exceeds.
PollingConfigs ==
    [retry_delay_seconds       : {5},
     rate_limit_backoff_factor : {2},
     max_backoff_seconds       : {300, 8},
     max_pages_per_request     : 1..MaxPollPages,
     max_retries               : 0..MaxPollRetries]

\* The answers of the API client: a page of default_page_size records, a
\* shorter page, no record, a SamsaraAPIError whose text names the rate
\* limit, another SamsaraAPIError, another exception.
ApiOutcomes == {"full", "partial", "empty", "rate_limit", "api_error", "exception"}

\* _handle_rate_limit: the new current_backoff_delay
_handle_rate_limit(delay, cfg) ==
    IF delay = 0
    THEN cfg.retry_delay_seconds
    ELSE Min(delay * cfg.rate_limit_backoff_factor, cfg.max_backoff_seconds)

\* _enforce_rate_limits: the back-off slept and the delay left afterwards
_enforce_rate_limits(delay) ==
    IF delay > 0 THEN [slept |-> delay, delay |-> 0] ELSE [slept |-> 0, delay |-> delay]

PInit ==
    /\ config \in PollingConfigs
    /\ ppc = "loop"
    /\ poll_page = 1
    /\ current_backoff_delay = 0
    /\ total_requests = 0
    /\ rate_limited_run = 0
    /\ run_before = 0
    /\ applied_delay = 0

PollRequest(outcome) ==
    /\ ppc = "loop"
    /\ total_requests < MaxRequests
    /\ LET enforced == _enforce_rate_limits(current_backoff_delay)
       IN  /\ applied_delay' = enforced.slept
           /\ total_requests' = total_requests + 1
           /\ run_before' = rate_limited_run
           /\ rate_limited_run' = IF outcome = "rate_limit" THEN rate_limited_run + 1 ELSE 0
           /\ CASE outcome = "full" ->
                    /\ poll_page' = poll_page + 1
                    /\ ppc' = IF poll_page + 1 <= config.max_pages_per_request
                              THEN "loop" ELSE "returned"
                    /\ current_backoff_delay' = enforced.delay
                [] outcome = "rate_limit" ->
                    \* continue: same page, no count of the retries
                    /\ current_backoff_delay' = _handle_rate_limit(enforced.delay, config)
                    /\ UNCHANGED <<poll_page, ppc>>
                [] OTHER ->
                    /\ ppc' = "returned"
                    /\ current_backoff_delay' = enforced.delay
                    /\ UNCHANGED poll_page
    /\ UNCHANGED config
    /\ UNCHANGED not_pvars

PNext == \E outcome \in ApiOutcomes : PollRequest(outcome)

(***************************************************************************)
(*                   google_sheets.py: batch_operations                    *)
(*                                                                         *)
(* The executor of batch_operations is followed thread by thread: every    *)
(* operation is submitted at once, at most max_concurrent of them run at   *)
(* one time, and they end in any order.  The source does not hold the      *)
(* worker _execute_single_batch_operation; it is taken to be what the      *)
(* specification and the fields of BatchOperation say: one write (an       *)
(* insert of rows or a rewrite of a range) on the worksheet the operation  *)
(* names, in flight for as long as the worker runs.                        *)
(***************************************************************************)
MaxOps == 3          \* operations given to batch_operations
max_concurrent == 3  \* default of batch_operations

Worksheets == {"Dispatch", "Summary"}

BatchOperation ==
    [operation_type : {"insert", "update"}, worksheet_name : Worksheets]

OperationLists == SeqUpTo(BatchOperation, MaxOps)

\* The write a worker has in flight while it runs.
_execute_single_batch_operation(op) ==
    [worksheet |-> op.worksheet_name, write |-> op.operation_type]

CInit ==
    /\ operations \in OperationLists
    /\ cpc = "call"
    /\ queued = <<>>
    /\ in_flight = {}
    /\ batch_results = [successful_operations |-> 0, failed_operations |-> 0]

\* executor.submit for every operation, in the order of the list
SubmitAll ==
    /\ cpc = "call"
    /\ queued' = [i \in 1..Len(operations) |-> i]
    /\ cpc' = "as_completed"
    /\ UNCHANGED <<operations, in_flight, batch_results>>
    /\ UNCHANGED not_cvars

\* a free worker thread takes the oldest submitted operation
StartWorker ==
    /\ cpc = "as_completed"
    /\ queued # <<>>
    /\ Cardinality(in_flight) < max_concurrent
    /\ in_flight' = in_flight \cup {Head(queued)}
    /\ queued' = Tail(queued)
    /\ UNCHANGED <<operations, cpc, batch_results>>
    /\ UNCHANGED not_cvars

\* a worker ends, with a result or with an exception; as_completed hands
\* its future to the loop that counts it
FinishWorker(i, ok) ==
    /\ cpc = "as_completed"
    /\ i \in in_flight
    /\ in_flight' = in_flight \ {i}
    /\ batch_results' =
           IF ok
           THEN [batch_results EXCEPT !.successful_operations = @ + 1]
           ELSE [batch_results EXCEPT !.failed_operations = @ + 1]
    /\ UNCHANGED <<operations, cpc, queued>>
    /\ UNCHANGED not_cvars

ReturnResults ==
    /\ cpc = "as_completed"
    /\ queued = <<>>
    /\ in_flight = {}
    /\ cpc' = "returned"
    /\ UNCHANGED <<operations, queued, in_flight, batch_results>>
    /\ UNCHANGED not_cvars

CNext ==
    \/ SubmitAll
    \/ StartWorker
    \/ \E i \in 1..MaxOps, ok \in BOOLEAN : FinishWorker(i, ok)
    \/ ReturnResults

(***************************************************************************)
(* The specifications.                                                     *)
(***************************************************************************)
InitUpsert == UInit /\ EIdle /\ NIdle /\ AIdle /\ PIdle /\ CIdle
SpecUpsert == InitUpsert /\ [][UNext]_vars

InitEnrich == EInit /\ UInit /\ NIdle /\ AIdle /\ PIdle /\ CIdle
SpecEnrich == InitEnrich /\ [][ENext]_vars

(***************************************************************************)
(* _calculate_derived_metrics and _calculate_enrichment_metrics on their   *)
(* own, applied to the tables _perform_enrichment_merge builds: one record *)
(* per dispatch row, made by the matched branch (lines 525-533) from a     *)
(* telemetry row or by the unmatched branch (lines 536-544).               *)
(***************************************************************************)
MergedRecords(d_rows, s_rows) ==
    {recs \in [1..Len(d_rows) ->
                 {unmatched_record(d) : d \in Range(d_rows)}
                     \cup {matched_record(d, t) : d \in Range(d_rows), t \in Range(s_rows)}] :
        \A i \in 1..Len(d_rows) :
            \/ recs[i] = unmatched_record(d_rows[i])
            \/ \E t \in Range(s_rows) : recs[i] = matched_record(d_rows[i], t)}

\* The rows the tables of this specification are made of: planned miles and
\* stops that are positive, zero and null; telemetry miles that are positive,
\* zero and null.
MergeDispatchPool ==
    {DispatchRow(Str(<<"J", "S", " ">>), Some(5), Some(100), Some(5)),
     DispatchRow(Str(<<"m">>), Some(5), Some(0), Some(0)),
     DispatchRow(Str(<<"j", "s">>), Some(-1), Some(100), Null)}

MergeSamsaraPool(mc) ==
    {SamsaraRow(mc, Str(<<" ", "J", "S">>), Some(5), Some(110), Some(30), Some(4), Some(10)),
     SamsaraRow(mc, Str(<<"j", "s">>), Some(7), Some(0), Some(10), Some(2), Null),
     SamsaraRow(mc, Str(<<"m">>), Some(5), Null, Some(5), Some(3), Some(1))}

DInit ==
    /\ match_columns = DefaultMatchColumns
    /\ date_tolerance_days = 1
    /\ dispatch_df \in [columns : {DispatchColumns},
                        rows : SeqUpTo(MergeDispatchPool, MaxDispatch)]
    /\ samsara_df \in [columns : {SamsaraColumns(match_columns)},
                       rows : SeqUpTo(MergeSamsaraPool(match_columns), MaxSamsara)]
    /\ dispatch_prepared = _prepare_dispatch_for_matching(dispatch_df, match_columns)
    /\ samsara_prepared = _prepare_samsara_for_matching(samsara_df, match_columns)
    /\ row_idx = Len(dispatch_df.rows) + 1
    /\ matches = NoTable
    /\ enriched_records \in MergedRecords(dispatch_prepared.rows, samsara_prepared.rows)
    /\ enriched_df = DataFrame(enriched_records)
    /\ epc = "derive"
    /\ metrics = NoMetrics
    /\ raised = ""
    /\ error_columns = {}

DNext ==
    \/ DerivedMetrics
    \/ EnrichmentMetrics

InitDerive == DInit /\ UInit /\ NIdle /\ AIdle /\ PIdle /\ CIdle
SpecDerive == InitDerive /\ [][DNext]_vars

InitApi == AInit /\ UInit /\ EIdle /\ NIdle /\ PIdle /\ CIdle
SpecApi == InitApi /\ [][ANext]_vars

InitPoll == PInit /\ UInit /\ EIdle /\ NIdle /\ AIdle /\ CIdle
SpecPoll == InitPoll /\ [][PNext]_vars

InitBatch == CInit /\ UInit /\ EIdle /\ NIdle /\ AIdle /\ PIdle
SpecBatch == InitBatch /\ [][CNext]_vars

InitNormalize == NInit /\ UInit /\ EIdle /\ AIdle /\ PIdle /\ CIdle
SpecNormalize == InitNormalize /\ [][NNext]_vars

(***************************************************************************)
(*                              The claims                                 *)
(***************************************************************************)
Occurrences(seq, x) == Cardinality({i \in 1..Len(seq) : seq[i] = x})

\* enrich_dispatch_data is over, by return or by exception.
EnrichOver == epc \in {"returned", "raised"}
MatchColumnsExist == _validate_enrichment_columns(dispatch_df, samsara_df, match_columns) = ""

(***************************************************************************)
(* C1: when the match columns exist, enrich_dispatch_data returns an       *)
(* enriched table with exactly one row per dispatch row, in the dispatch   *)
(* table's order.                                                          *)
(***************************************************************************)
C1_OneRowPerDispatchRow ==
    (EnrichOver /\ MatchColumnsExist) =>
        /\ epc = "returned"
        /\ Len(enriched_df.rows) = Len(dispatch_df.rows)
        /\ \A i \in 1..Len(dispatch_df.rows) :
               Restrict(enriched_df.rows[i], dispatch_df.columns) = dispatch_df.rows[i]

(***************************************************************************)
(* C2: starting from a worksheet whose data rows have pairwise distinct    *)
(* keys (here the empty worksheet), after any sequence of upsert_data      *)
(* calls no two data rows of the worksheet carry the same key.             *)
(***************************************************************************)
HeaderHasKey(ws) == Len(ws) > 0 /\ \E c \in 1..Len(ws[1]) : ws[1][c] = KeyColumn
KeyAt(ws, r) ==
    LET k == index_of(ws[1], KeyColumn) IN IF Len(ws[r]) >= k THEN ws[r][k] ELSE ""

C2_NoDuplicateKey ==
    (upc = "returned" /\ HeaderHasKey(sheet)) =>
        \A r1, r2 \in 2..Len(sheet) :
            (r1 # r2 /\ KeyAt(sheet, r1) # "") => KeyAt(sheet, r1) # KeyAt(sheet, r2)

(***************************************************************************)
(* C3: once a plan has been applied completely (the header is in place and *)
(* every chunk was accepted), planning the same batch against the          *)
(* worksheet as it now is gives no insert and no update.                   *)
(***************************************************************************)
PlanApplied ==
    /\ upc = "returned"
    /\ results.errors = <<>>
    /\ \A c \in 1..Len(chunks) : chunks[c].status = "Acked"
    /\ (chunks # <<>> => row_values1(sheet) = upsert_plan.headers)

Replan ==
    _plan_upsert_operations(_prepare_data_for_upsert(data, KeyColumn),
                            _get_existing_data(sheet, KeyColumn, "ok"), KeyColumn)

C3_ReplanIsEmpty ==
    PlanApplied => (Replan.insert = <<>> /\ Replan.update = <<>>)

(***************************************************************************)
(* C4: for a dispatch row with non-null identity and date, the candidates  *)
(* _find_samsara_matches returns are exactly the telemetry rows with the   *)
(* same trimmed, lower-cased identity and a date within tolerance_days of  *)
(* the dispatch date, both ends included.                                  *)
(***************************************************************************)
\* The merge loop has just asked for the candidates of dispatch row row_idx.
CandidatesComputed == epc = "raised" /\ raised = "ValueError"

Trimmed(cell) == str_strip(str_lower(Val(cell)))
Distance(a, b) == IF a >= b THEN a - b ELSE b - a

IsCandidate(d, t) ==
    /\ ~isna(t[match_columns["driver_name"]])
    /\ Trimmed(t[match_columns["driver_name"]]) = Trimmed(d["driver_name"])
    /\ ~isna(to_datetime(t[match_columns["date"]]))
    /\ Distance(Val(t[match_columns["date"]]), Val(d["date"])) <= date_tolerance_days

C4_CandidatesAreExactlyTheMatches ==
    (/\ CandidatesComputed
     /\ ~isna(dispatch_df.rows[row_idx]["driver_name"])
     /\ ~isna(to_datetime(dispatch_df.rows[row_idx]["date"])))
    => [i \in 1..Len(matches.rows) |-> Restrict(matches.rows[i], samsara_df.columns)]
       = SelectSeq(samsara_df.rows, LAMBDA t : IsCandidate(dispatch_df.rows[row_idx], t))

(***************************************************************************)
(* C5: every dispatch row gets an enriched record in which match_found     *)
(* true goes with all telemetry-derived fields non-null and match_found    *)
(* false with all of them null.                                            *)
(***************************************************************************)
TelemetryFields ==
    {"samsara_total_miles", "samsara_idle_time", "samsara_stops_count",
     "samsara_fuel_used", "samsara_match_date", "samsara_match_driver"}

FlagAgreesWithFields(rec) ==
    /\ rec["samsara_match_found"] = Some(TRUE) => \A f \in TelemetryFields : ~isna(rec[f])
    /\ rec["samsara_match_found"] = Some(FALSE) => \A f \in TelemetryFields : isna(rec[f])

C5_MatchFlagAgreesWithFields ==
    (EnrichOver /\ MatchColumnsExist) =>
        \A i \in 1..Len(dispatch_df.rows) :
            /\ i <= Len(enriched_records)
            /\ FlagAgreesWithFields(enriched_records[i])

(***************************************************************************)
(* The plan of the running call, seen from the batch and the snapshot.     *)
(***************************************************************************)
\* upsert_data has planned and has not yet been left behind by the next call.
Planned == upc \in {"headers", "insert", "update", "finish", "returned"}

\* The rows of the batch as strings, in the batch's order.
BatchRows == Tail(_prepare_data_for_upsert(data, KeyColumn))
KeyOf(row) == row[index_of(data.columns, KeyColumn)]

KeyInSnapshot(row) == KeyOf(row) \in DOMAIN existing_data
SomeColumnDiffers(row) ==
    \E c \in 1..Len(data.columns) :
        row[c] # dict_get(existing_data[KeyOf(row)].data, data.columns[c], "")

IsInsert(row) == ~KeyInSnapshot(row)
IsUpdate(row) == KeyInSnapshot(row) /\ SomeColumnDiffers(row)
IsNoOp(row)   == KeyInSnapshot(row) /\ ~SomeColumnDiffers(row)

UpdateRows == [i \in 1..Len(upsert_plan.update) |-> upsert_plan.update[i].data]

\* The snapshot holds key A at worksheet row 3 with the given val.
RemoteAAtRow3(val) ==
    /\ DOMAIN existing_data = {"A"}
    /\ existing_data["A"].row_index = 3
    /\ existing_data["A"].data = [id |-> "A", val |-> val]

(***************************************************************************)
(* C6: the planner queues as inserts, in batch order, the rows whose key   *)
(* is absent from the snapshot; as updates, in batch order, the rows whose *)
(* key is present with some column different as a string, each carrying    *)
(* the position at which the worksheet held that key; and leaves the rows  *)
(* with key present and all columns equal out of both.  Batch              *)
(* [{id:A, val:x}] against remote A at row 3 gives the empty plan when the *)
(* remote val is x and one update at position 3 with the new row when it   *)
(* is y.                                                                   *)
(***************************************************************************)
C6_PlannerClassifiesRows ==
    Planned =>
      LET rows == BatchRows
          updates == UpdateRows
      IN
        /\ upsert_plan.insert = SelectSeq(rows, IsInsert)
        /\ updates = SelectSeq(rows, IsUpdate)
        /\ \A i \in 1..Len(upsert_plan.update) :
               LET u == upsert_plan.update[i]
               IN  /\ u.row_index = existing_data[KeyOf(u.data)].row_index
                   /\ u.row_index \in 2..Len(sheet0)
                   /\ KeyAt(sheet0, u.row_index) = KeyOf(u.data)
        /\ \A k \in 1..Len(rows) :
               IsNoOp(rows[k]) =>
                   /\ rows[k] \notin Range(upsert_plan.insert)
                   /\ rows[k] \notin Range(updates)
        /\ (data.rows = <<<<"A", "x">>>> /\ RemoteAAtRow3("x")) =>
               (upsert_plan.insert = <<>> /\ upsert_plan.update = <<>>)
        /\ (data.rows = <<<<"A", "x">>>> /\ RemoteAAtRow3("y")) =>
               /\ upsert_plan.insert = <<>>
               /\ upsert_plan.update = <<[row_index |-> 3, data |-> <<"A", "x">>]>>

\* The second scenario has been planned: one update aimed at row 3.
C6_UpdateAtRow3Planned ==
    /\ Planned
    /\ data.rows = <<<<"A", "x">>>>
    /\ RemoteAAtRow3("y")
    /\ Len(upsert_plan.update) = 1

(***************************************************************************)
(* C7, as the specification states it: inserts and updates are disjoint,   *)
(* and together they are exactly the batch rows whose key is not null.     *)
(***************************************************************************)
PlanDisjoint ==
    /\ Range(upsert_plan.insert) \cap Range(UpdateRows) = {}
    /\ {KeyOf(r) : r \in Range(upsert_plan.insert)}
           \cap {KeyOf(r) : r \in Range(UpdateRows)} = {}

C8_RateLimitedChunkIsResent ==
    upc = "returned" =>
        \A c \in 1..Len(chunks) :
            chunks[c].status = "RateLimited" => chunks[c].attempts > 1

C10_CountsAreRowsWritten ==
    upc = "returned" =>
        /\ results.inserted = appended
        /\ results.updated = rewritten

(***************************************************************************)
(* C11: when chunks fail, upsert_data still returns its result, and every  *)
(* chunk that was not accepted has an entry in the result's error list, so *)
(* an empty error list means that every planned chunk was written.         *)
(***************************************************************************)
ChunksNotAccepted == {c \in 1..Len(chunks) : chunks[c].status \in {"Failed", "RateLimited"}}

C11_FailedChunksAreInErrorList ==
    /\ upc = "raised" => chunks = <<>>
    /\ upc = "returned" =>
           /\ Cardinality(ChunksNotAccepted) <= Len(results.errors)
           /\ results.errors = <<>> => \A c \in 1..Len(chunks) : chunks[c].status = "Acked"

(***************************************************************************)
(* C12: a dispatch row whose driver identity is null, or whose date is     *)
(* null or no date, has no candidates and is emitted as an unmatched       *)
(* record, whatever the telemetry table holds.                             *)
(***************************************************************************)
NullIdentityOrDate(d) == isna(d["driver_name"]) \/ isna(to_datetime(d["date"]))

CandidatesOf(i) ==
    _find_samsara_matches(dispatch_prepared.rows[i], samsara_prepared, match_columns,
                          date_tolerance_days).rows

C12_NullRowHasNoCandidates ==
    (EnrichOver /\ MatchColumnsExist) =>
        \A i \in 1..Len(dispatch_df.rows) :
            NullIdentityOrDate(dispatch_df.rows[i]) =>
                /\ CandidatesOf(i) = <<>>
                /\ i <= Len(enriched_records)
                /\ enriched_records[i]["samsara_match_found"] = Some(FALSE)

(***************************************************************************)
(* C13: a dispatch row with one or more candidates gets the record of the  *)
(* candidate that comes first in the telemetry table's row order.          *)
(***************************************************************************)
FromCandidate(rec, t) ==
    /\ rec["samsara_match_found"] = Some(TRUE)
    /\ rec["samsara_total_miles"] = t["total_miles"]
    /\ rec["samsara_idle_time"] = t["idle_time"]
    /\ rec["samsara_stops_count"] = t["stops_count"]
    /\ rec["samsara_fuel_used"] = t["fuel_used"]
    /\ rec["samsara_match_date"] = t["_normalized_date"]
    /\ rec["samsara_match_driver"] = t["_normalized_driver"]

C13_BestMatchIsFirstCandidate ==
    (EnrichOver /\ MatchColumnsExist) =>
        \A i \in 1..Len(dispatch_df.rows) :
            CandidatesOf(i) # <<>> =>
                /\ i <= Len(enriched_records)
                /\ FromCandidate(enriched_records[i], CandidatesOf(i)[1])

(***************************************************************************)
(* C14: once the derived metrics are computed, a matched record whose      *)
(* planned_miles is 0 or null has a null miles_variance_percent, and one   *)
(* whose planned_stops is 0 or null a null stops_variance_percent.         *)
(***************************************************************************)
Derived == epc \in {"metrics", "returned"} /\ enriched_df.rows # <<>>
ZeroOrNull(c) == isna(c) \/ c = Some(0)

C14_ZeroPlannedGivesNullPercent ==
    Derived =>
        \A i \in 1..Len(enriched_df.rows) :
            LET r == enriched_df.rows[i]
            IN  r["samsara_match_found"] = Some(TRUE) =>
                    /\ ZeroOrNull(r["planned_miles"]) => isna(r["miles_variance_percent"])
                    /\ ZeroOrNull(r["planned_stops"]) => isna(r["stops_variance_percent"])

(***************************************************************************)
(* C15: _calculate_enrichment_metrics returns metrics whose match_rate is  *)
(* matched_records / total_dispatch_records when there are dispatch        *)
(* records and 0 when there are none, and lies between 0 and 1;            *)
(* matched_records is the number of enriched rows with match_found true.   *)
(***************************************************************************)
MetricsOver == epc \in {"returned", "raised"}
MatchedRows == {i \in 1..Len(enriched_df.rows) :
                   enriched_df.rows[i]["samsara_match_found"] = Some(TRUE)}

C15_MatchRateIsMatchedOverTotal ==
    MetricsOver =>
        /\ epc = "returned"
        /\ metrics.total_dispatch_records = Len(dispatch_df.rows)
        /\ metrics.matched_records = Cardinality(MatchedRows)
        /\ metrics.match_rate =
               (IF Len(dispatch_df.rows) > 0
                THEN [num |-> Cardinality(MatchedRows), den |-> Len(dispatch_df.rows)]
                ELSE [num |-> 0, den |-> 1])
        /\ 0 <= metrics.match_rate.num
        /\ metrics.match_rate.num <= metrics.match_rate.den

(***************************************************************************)
(* C16, as the specification states it: when a column match_columns names  *)
(* is missing from its table, enrich_dispatch_data raises, before any      *)
(* processing, an error that names the missing columns of both tables.     *)
(***************************************************************************)
MissingDispatch == {col \in DOMAIN match_columns : col \notin dispatch_df.columns}
MissingSamsara == {match_columns[col] : col \in DOMAIN match_columns} \ samsara_df.columns
Validated == epc # "validate"

NothingProcessed ==
    /\ dispatch_prepared = NoTable
    /\ samsara_prepared = NoTable
    /\ enriched_records = <<>>
    /\ enriched_df = NoTable
    /\ metrics = NoMetrics

C16_ErrorNamesAllMissingColumns ==
    (Validated /\ (MissingDispatch # {} \/ MissingSamsara # {})) =>
        /\ epc = "raised"
        /\ raised = "SamsaraEnrichmentError"
        /\ error_columns = MissingDispatch \cup MissingSamsara
        /\ NothingProcessed

(***************************************************************************)
(* C16, amended: the error names the missing dispatch columns when there   *)
(* are some, and the missing telemetry columns only when no dispatch       *)
(* column is missing; nothing is processed and nothing is returned.  When  *)
(* no column is missing, validation raises nothing.                        *)
(***************************************************************************)
C16_ErrorNamesMissingColumnsOfOneTable ==
    Validated =>
        /\ (MissingDispatch # {} \/ MissingSamsara # {}) =>
               /\ epc = "raised"
               /\ raised = "SamsaraEnrichmentError"
               /\ error_columns =
                      (IF MissingDispatch # {} THEN MissingDispatch ELSE MissingSamsara)
               /\ NothingProcessed
        /\ (MissingDispatch = {} /\ MissingSamsara = {}) =>
               (raised # "SamsaraEnrichmentError" /\ error_columns = {})

\* A telemetry table without its date column has been refused by name.
C16_MissingTelemetryColumnRefused ==
    /\ epc = "raised"
    /\ raised = "SamsaraEnrichmentError"
    /\ MissingDispatch = {}
    /\ error_columns = {match_columns["date"]}
    /\ samsara_df.rows # <<>>

(***************************************************************************)
(* C17: a batch row whose key is null is rejected: it is in neither the    *)
(* inserts nor the updates of the plan, and no row with an empty key is    *)
(* ever written to the worksheet.                                          *)
(***************************************************************************)
NullKeyRows == {k \in 1..Len(data.rows) : KeyOf(data.rows[k]) = NaN}

C17_NullKeyRowIsRejected ==
    /\ Planned =>
           \A k \in NullKeyRows :
               BatchRows[k] \notin Range(upsert_plan.insert) \cup Range(UpdateRows)
    /\ \A r \in 1..Len(sheet) : KeyOf(sheet[r]) # ""

(***************************************************************************)
(* C18: when the batch lacks the key column, upsert_data raises and has    *)
(* changed nothing in the remote store: no row written, no header          *)
(* rewritten, no worksheet created.                                        *)
(***************************************************************************)
C18_MissingKeyColumnChangesNothing ==
    (upc = "raised" /\ ~HasKeyColumn(data, KeyColumn)) =>
        /\ sheet = sheet0
        /\ results = NoResults
        /\ ~ws_created

(***************************************************************************)
(* C19: the means in the metrics _calculate_enrichment_metrics returns     *)
(* (avg_miles_variance, avg_stops_variance, avg_idle_percentage) are taken *)
(* over the matched records only: each is the sum of the non-null values   *)
(* of its column in the matched records over their number, 0 when there is *)
(* none, and an unmatched record, whose derived fields are null, adds      *)
(* nothing to the sum or to the count.                                     *)
(***************************************************************************)
RECURSIVE SumOver(_, _)
SumOver(S, col) ==
    IF S = {} THEN 0
    ELSE LET i == CHOOSE x \in S : TRUE
         IN  Val(enriched_df.rows[i][col]) + SumOver(S \ {i}, col)

Contributing(col) == {i \in MatchedRows : ~isna(enriched_df.rows[i][col])}

MeanOverMatched(col) ==
    LET C == Contributing(col)
    IN  IF C = {} THEN [num |-> 0, den |-> 1]
        ELSE IF \E i \in C : is_inf(enriched_df.rows[i][col])
        THEN [num |-> 1, den |-> 0]
        ELSE [num |-> SumOver(C, col), den |-> Cardinality(C)]

C19_MeansAreOverMatchedRecords ==
    epc = "returned" =>
        /\ metrics.avg_miles_variance = MeanOverMatched("miles_variance")
        /\ metrics.avg_stops_variance = MeanOverMatched("stops_variance")
        /\ metrics.avg_idle_percentage = MeanOverMatched("idle_percentage")
        /\ \A i \in (1..Len(enriched_df.rows)) \ MatchedRows :
               /\ isna(enriched_df.rows[i]["miles_variance"])
               /\ isna(enriched_df.rows[i]["stops_variance"])
               /\ isna(enriched_df.rows[i]["idle_percentage"])

\* Two records, one matched and one not: the mean is the matched one's value.
C19_OneMatchedOfTwo ==
    /\ epc = "returned"
    /\ Len(enriched_df.rows) = 2
    /\ Cardinality(MatchedRows) = 1
    /\ metrics.avg_miles_variance = [num |-> 10, den |-> 1]
    /\ metrics.avg_stops_variance = [num |-> -1, den |-> 1]


(***************************************************************************)
(* C20: in every matched enriched record miles_variance is the telemetry   *)
(* total_miles minus planned_miles and stops_variance the telemetry        *)
(* stops_count minus planned_stops, the percentages being the variance     *)
(* over the planned value times 100 (kept in hundredths).  In particular a *)
(* dispatch row of driver 'JS ' on day 5 with 100 planned miles and 5      *)
(* planned stops, against a telemetry row of ' JS' on day 5 (110 miles, 4  *)
(* stops) followed by a row of 'js' on a day outside the tolerance, is     *)
(* enriched from the first telemetry row only: miles_variance 10,          *)
(* miles_variance_percent 10.00, stops_variance -1, stops_variance_percent *)
(* -20.00.                                                                 *)
(***************************************************************************)
PercentOf(variance, planned) ==
    IF Val(planned) > 0
    THEN Some(round_div(Val(variance) * 10000, Val(planned)))
    ELSE Some(round_div(-(Val(variance) * 10000), -Val(planned)))

VarianceIsDifference(r, variance, percent, actual, planned) ==
    (~isna(r[actual]) /\ ~isna(r[planned])) =>
        /\ r[variance] = Some(Val(r[actual]) - Val(r[planned]))
        /\ Val(r[planned]) # 0 => r[percent] = PercentOf(r[variance], r[planned])

JohnSmithScenario ==
    /\ dispatch_df.columns = DispatchColumns
    /\ samsara_df.columns = SamsaraColumns(match_columns)
    /\ dispatch_df.rows = <<DispatchRow(Str(<<"J", "S", " ">>), Some(5), Some(100), Some(5))>>
    /\ Len(samsara_df.rows) = 2
    /\ samsara_df.rows[1] =
           SamsaraRow(match_columns, Str(<<" ", "J", "S">>), Some(5), Some(110), Some(30),
                      Some(4), Some(10))
    /\ samsara_df.rows[2][match_columns["driver_name"]] = Str(<<"j", "s">>)
    /\ Val(samsara_df.rows[2][match_columns["date"]]) > 5 + date_tolerance_days

C20_VariancesOfMatchedRecord ==
    /\ epc \in {"metrics", "returned"} =>
           \A i \in MatchedRows :
               LET r == enriched_df.rows[i]
               IN  /\ VarianceIsDifference(r, "miles_variance", "miles_variance_percent",
                                           "samsara_total_miles", "planned_miles")
                   /\ VarianceIsDifference(r, "stops_variance", "stops_variance_percent",
                                           "samsara_stops_count", "planned_stops")
    /\ (EnrichOver /\ JohnSmithScenario) =>
           /\ epc = "returned"
           /\ Len(enriched_df.rows) = 1
           /\ enriched_df.rows[1]["samsara_match_found"] = Some(TRUE)
           /\ enriched_df.rows[1]["samsara_total_miles"] = Some(110)
           /\ enriched_df.rows[1]["miles_variance"] = Some(10)
           /\ enriched_df.rows[1]["miles_variance_percent"] = Some(1000)
           /\ enriched_df.rows[1]["stops_variance"] = Some(-1)
           /\ enriched_df.rows[1]["stops_variance_percent"] = Some(-2000)


(***************************************************************************)
(* C22, as the specification states it: the executor cuts the plan's       *)
(* inserts into consecutive chunks of at most batch_size rows, in plan     *)
(* order; every append request carries at most batch_size rows, and when   *)
(* upsert_data is over every planned insert row has been in exactly one    *)
(* submitted chunk (none skipped, none submitted twice): the requests, put *)
(* end to end, are the planned inserts.                                    *)
(***************************************************************************)
RECURSIVE Flatten(_)
Flatten(batches) ==
    IF batches = <<>> THEN <<>> ELSE Head(batches) \o Flatten(Tail(batches))

IsPrefix(s, t) == Len(s) <= Len(t) /\ SubSeq(t, 1, Len(s)) = s

RequestsAreBounded ==
    \A r \in 1..Len(sent) : Len(sent[r]) >= 1 /\ Len(sent[r]) <= batch_size

\* every request but the last of the plan is a full chunk
RequestsAreConsecutive ==
    /\ IsPrefix(Flatten(sent), upsert_plan.insert)
    /\ \A r \in 1..Len(sent) :
           Len(sent[r]) < batch_size =>
               r = Len(sent) /\ Flatten(sent) = upsert_plan.insert

InsertAborted ==
    \E c \in 1..Len(chunks) :
        chunks[c].kind = "insert" /\ chunks[c].attempts > 0 /\ chunks[c].outcome = "Exception"

BatchKeys == {KeyOf(BatchRows[k]) : k \in 1..Len(BatchRows)}

UnrelatedRows ==
    IF HeaderHasKey(sheet0)
    THEN {r \in 2..Len(sheet0) : KeyAt(sheet0, r) \notin BatchKeys}
    ELSE {}

ReadsTheSame(r) ==
    /\ r <= Len(sheet)
    /\ zip_dict(sheet[1], sheet[r]) = zip_dict(sheet0[1], sheet0[r])

C24_UnrelatedRowsAreKept ==
    upc = "returned" => \A r \in UnrelatedRows : ReadsTheSame(r)


(***************************************************************************)
(* C27: with upsert_data as the only writer, every update is written onto  *)
(* the row that holds the update's key.  When worksheet.update is called   *)
(* for an update of the plan, the row at the recorded position is the row  *)
(* the snapshot read there, which held that key, or what an earlier update *)
(* of this call for the same key wrote there: the header rewrite and the   *)
(* appends made before the updates did not move it.                        *)
(***************************************************************************)
CurrentUpdate == ChunkOf(upsert_plan.update, chunk_i, batch_size)[item_j + 1]

HoldsKeyOf(u) ==
    /\ u.row_index \in 2..Len(sheet)
    /\ u.row_index <= Len(sheet0)
    /\ KeyAt(sheet0, u.row_index) = KeyOf(u.data)
    /\ \/ sheet[u.row_index] = sheet0[u.row_index]
       \/ \E v \in Range(upsert_plan.update) :
              /\ v.row_index = u.row_index
              /\ KeyOf(v.data) = KeyOf(u.data)
              /\ sheet[u.row_index] = v.data

C27_UpdateIsWrittenOnTheRowOfItsKey ==
    [][(upc = "update" /\ rewritten' = rewritten + 1) =>
           /\ HoldsKeyOf(CurrentUpdate)
           /\ sheet'[CurrentUpdate.row_index] = CurrentUpdate.data]_vars

\* An update was written in a call that had rewritten the header and appended
\* a row before.
C27_UpdateAfterHeaderAndInsert ==
    /\ rewritten = 1
    /\ appended >= 1
    /\ sheet0 # <<>>
    /\ sheet[1] # sheet0[1]
    /\ Len(upsert_plan.update) = 1
    /\ sheet[upsert_plan.update[1].row_index] = upsert_plan.update[1].data
    /\ sheet[upsert_plan.update[1].row_index] # sheet0[upsert_plan.update[1].row_index]


(***************************************************************************)
(* C29: when no usable snapshot is obtained (reading the worksheet raised, *)
(* or its header row lacks the key column), no batch row whose key is      *)
(* already stored in the worksheet is planned as an insert, so none is     *)
(* appended again.                                                         *)
(***************************************************************************)
ReadRaised == existing_data # _get_existing_data(sheet0, KeyColumn, "ok")

\* The keys the worksheet held when the call started; rows under a header row
\* without the key column are read in the layout of the batch.
StoredKeys ==
    IF HeaderHasKey(sheet0)
    THEN {KeyAt(sheet0, r) : r \in 2..Len(sheet0)} \ {""}
    ELSE {sheet0[r][index_of(data.columns, KeyColumn)] : r \in 1..Len(sheet0)} \ {""}

NoStoredKeyInserted ==
    \A i \in 1..Len(upsert_plan.insert) : KeyOf(upsert_plan.insert[i]) \notin StoredKeys

C29_UnusableSnapshotAppendsNoStoredKey ==
    (Planned /\ (ReadRaised \/ ~HeaderHasKey(sheet0))) => NoStoredKeyInserted


(***************************************************************************)
(* C28: the counts of the metrics _calculate_enrichment_metrics returns    *)
(* are consistent: matched_records + unmatched_dispatch is                 *)
(* total_dispatch_records, matched_records lies between 0 and              *)
(* total_dispatch_records, and unmatched_samsara between 0 and             *)
(* total_samsara_records, also when several dispatch rows are matched with *)
(* one telemetry row.                                                      *)
(***************************************************************************)
C28_CountsAreConsistent ==
    epc = "returned" =>
        /\ metrics.total_dispatch_records = Len(dispatch_df.rows)
        /\ metrics.total_samsara_records = Len(samsara_df.rows)
        /\ metrics.matched_records + metrics.unmatched_dispatch
               = metrics.total_dispatch_records
        /\ 0 <= metrics.matched_records
        /\ metrics.matched_records <= metrics.total_dispatch_records
        /\ 0 <= metrics.unmatched_samsara
        /\ metrics.unmatched_samsara <= metrics.total_samsara_records


(***************************************************************************)
(* C23                                                                     *)
(***************************************************************************)
RawCell(i, name) ==
    raw_df.rows[i][CHOOSE k \in raw_df.columns : normalize_column(k) = name]

HasDateAndIdentity(i) ==
    /\ ~isna(RawCell(i, driver_column))
    /\ ~isna(to_datetime(RawCell(i, date_column)))

UsableLabels ==
    {raw_df.index[i] : i \in {j \in 1..Len(raw_df.rows) : HasDateAndIdentity(j)}}

\* C23: _preprocess_samsara_data never raises for a row with a null or
\* unparsable date or a null driver identity, and the rows it returns are
\* exactly the rows that have a parsable date and a non-null identity.
C23_RowsWithoutDateOrIdentityAreDropped ==
    /\ npc # "raised"
    /\ npc = "returned" => Range(processed_df.index) = UsableLabels

\* The part of C23 the code keeps: a row with a null or unparsable date is
\* dropped, and nothing is raised.
C23_RowsWithoutDateAreDropped ==
    /\ npc # "raised"
    /\ npc = "returned" =>
           \A i \in 1..Len(raw_df.rows) :
               isna(to_datetime(RawCell(i, date_column))) =>
                   raw_df.index[i] \notin Range(processed_df.index)

C23_NullIdentityRowReturned ==
    /\ npc = "returned"
    /\ \E i \in 1..Len(raw_df.rows) :
           /\ isna(RawCell(i, driver_column))
           /\ raw_df.index[i] \in Range(processed_df.index)


(***************************************************************************)
(* C25                                                                     *)
(***************************************************************************)
CallEnded == apc \in {"returned", "raised"}

EveryAttemptFailed == only_exceptions /\ http_calls > 0

\* C25: when every HTTP attempt fails with a request exception,
\* get_fleet_trips raises SamsaraAPIError, after exactly max_retries + 1
\* attempts; it does not return a result.
C25_PersistentFailureRaises ==
    (CallEnded /\ EveryAttemptFailed) =>
        /\ apc = "raised"
        /\ http_calls = api_config.max_retries + 1

\* The part of C25 the code keeps: the call ends after exactly
\* max_retries + 1 attempts.
C25_PersistentFailureEndsAfterAllRetries ==
    (CallEnded /\ EveryAttemptFailed) => http_calls = api_config.max_retries + 1

C25_ReturnedAfterPersistentFailure ==
    /\ apc = "returned"
    /\ EveryAttemptFailed
    /\ api_config.max_retries = 2
    /\ all_data = 0


(***************************************************************************)
(* C26                                                                     *)
(***************************************************************************)
RECURSIVE Power(_, _)
Power(b, n) == IF n = 0 THEN 1 ELSE b * Power(b, n - 1)

ExponentialBackoff(k) ==
    Min(config.retry_delay_seconds * Power(config.rate_limit_backoff_factor, k - 1),
        config.max_backoff_seconds)

\* C26: a request that follows k consecutive rate-limited requests is
\* delayed by retry_delay_seconds * rate_limit_backoff_factor^(k-1), capped
\* at max_backoff_seconds.
C26_BackoffGrowsWithConsecutiveRateLimits ==
    (total_requests > 0 /\ run_before > 0) =>
        applied_delay = ExponentialBackoff(run_before)

\* What the code does: every request that follows a rate-limited one is
\* delayed by retry_delay_seconds, whatever the length of the run.
C26_BackoffIsTheInitialDelay ==
    (total_requests > 0 /\ run_before > 0) =>
        applied_delay = config.retry_delay_seconds

C26_ThirdRateLimitInARow ==
    /\ run_before = 2
    /\ rate_limited_run = 3
    /\ applied_delay = 5

(***************************************************************************)
(* C30                                                                     *)
(***************************************************************************)
\* C30: _poll_data_type issues at most max_pages_per_request * (max_retries
\* + 1) requests, whatever the API answers.
C30_RequestsAreBounded ==
    total_requests <= config.max_pages_per_request * (config.max_retries + 1)

\* What the code bounds: the requests that are not answered by a rate
\* limit; at most max_pages_per_request of them.
C30_RequestsNotRateLimitedAreBounded ==
    ppc = "loop" => poll_page <= config.max_pages_per_request

C30_StillLoopingOnTheFirstPage ==
    /\ ppc = "loop"
    /\ poll_page = 1
    /\ config.max_pages_per_request = 1
    /\ config.max_retries = 0
    /\ total_requests = MaxRequests


(***************************************************************************)
(* C21                                                                     *)
(***************************************************************************)
WriteInFlight(i) == _execute_single_batch_operation(operations[i])

C21_AtMostMaxConcurrentWriters == Cardinality(in_flight) <= max_concurrent

C21_TwoWritersOnOneWorksheet ==
    \E i, j \in in_flight :
        /\ i # j
        /\ WriteInFlight(i).worksheet = WriteInFlight(j).worksheet
        /\ WriteInFlight(i).write = "insert"
        /\ WriteInFlight(j).write = "update"

====
